---- MODULE Spec2Model ----
(***************************************************************************)
(* A model of the python-zwo binding: zwo/eaf.py (Focuser) and zwo/efw.py  *)
(* (FilterWheel).  The native libraries are opaque: every native call      *)
(* returns a nondeterministic c_int and writes nondeterministic values to  *)
(* its by-reference parameters, except for the 8-byte id record, which the *)
(* native double stores on a successful set and gives back on a get.       *)
(***************************************************************************)
EXTENDS Integers, Sequences, FiniteSets, TLC

(* ------------------------------------------------------------------ *)
(* Bounds of the model                                                 *)
(* ------------------------------------------------------------------ *)
MaxClients == 2
MaxDevId == 1
MaxOut == 1
MaxRet == 10
MinRetAbs == 2
LenSlack == 2
MaxFill == 3
MaxThreads == 2
MaxImports == 2

Families == {"eaf", "efw"}
DevIds == 0..MaxDevId
OutVals == 0..MaxOut
NativeRets == (0 - MinRetAbs)..MaxRet
Threads == 1..MaxThreads

(* ------------------------------------------------------------------ *)
(* Library resolver: module-level code of eaf.py / efw.py              *)
(* ------------------------------------------------------------------ *)
OsNames == {"posix", "nt", "java"}
Widths == {"32bit", "64bit", ""}

eaf_arch ==
    [posix |-> [32bit |-> <<"linux32", "libEAFFocuser.so">>,
                64bit |-> <<"linux64", "libEAFFocuser.so">>],
     nt    |-> [32bit |-> <<"win32", "EAF_focuser.dll">>,
                64bit |-> <<"win64", "EAF_focuser.dll">>]]

efw_arch ==
    [posix |-> [32bit |-> <<"linux32", "libEFWFilter.so">>,
                64bit |-> <<"linux64", "libEFWFilter.so">>],
     nt    |-> [32bit |-> <<"win32", "EFW_filter.dll">>,
                64bit |-> <<"win64", "EFW_filter.dll">>]]

arch_table(f) == IF f = "eaf" THEN eaf_arch ELSE efw_arch

\* the dictionary subscription {...}[os.name][architecture()[0]]: a KeyError
\* when either key is missing
arch_found(f, os, w) ==
    /\ os \in DOMAIN arch_table(f)
    /\ w \in DOMAIN arch_table(f)[os]

arch(f, os, w) == arch_table(f)[os][w]

\* the filter wheel's path built as the focuser's is, without the "efw" folder
efw_lib_path_flat(a, n) == <<"dirname", "libs", a, n>>

\* os.path.join(os.path.dirname(__file__), "libs", [ "efw", ] arch, name)
eaf_lib_path(a, n) == <<"dirname", "libs", a, n>>

efw_lib_path(a, n) == <<"dirname", "libs", "efw", a, n>>

lib_path(f, a, n) == IF f = "eaf" THEN eaf_lib_path(a, n) ELSE efw_lib_path(a, n)

UdevLoad == [path |-> <<"libudev.so">>, mode |-> "RTLD_GLOBAL"]

DeviceLoad(f, a, n) == [path |-> lib_path(f, a, n), mode |-> "DEFAULT"]

\* _load_lib(arch, name): the CDLL calls it makes, in order
load_lib_calls(f, os, a, n) ==
    (IF os = "posix" THEN <<UdevLoad>> ELSE <<>>) \o <<DeviceLoad(f, a, n)>>

(* ------------------------------------------------------------------ *)
(* ABI surface                                                         *)
(* ------------------------------------------------------------------ *)
EAF_ID_MAX == 128
EFW_ID_MAX == 128
ID_LEN == 8

ID_MAX(f) == IF f = "eaf" THEN EAF_ID_MAX ELSE EFW_ID_MAX

EAF_ERROR_CODE ==
    [EAF_SUCCESS |-> 0,
     EAF_ERROR_INVALID_INDEX |-> 1,
     EAF_ERROR_INVALID_ID |-> 2,
     EAF_ERROR_INVALID_VALUE |-> 3,
     EAF_ERROR_REMOVED |-> 4,
     EAF_ERROR_MOVING |-> 5,
     EAF_ERROR_ERROR_STATE |-> 6,
     EAF_ERROR_GENERAL_ERROR |-> 7,
     EAF_ERROR_NOT_SUPPORTED |-> 8,
     EAF_ERROR_CLOSED |-> 9,
     EAF_ERROR_END |-> 0 - 1]

EFW_ERROR_CODE ==
    [EFW_SUCCESS |-> 0,
     EFW_ERROR_INVALID_INDEX |-> 1,
     EFW_ERROR_INVALID_ID |-> 2,
     EFW_ERROR_INVALID_VALUE |-> 3,
     EFW_ERROR_REMOVED |-> 4,
     EFW_ERROR_MOVING |-> 5,
     EFW_ERROR_ERROR_STATE |-> 6,
     EFW_ERROR_GENERAL_ERROR |-> 7,
     EFW_ERROR_NOT_SUPPORTED |-> 8,
     EFW_ERROR_CLOSED |-> 9,
     EFW_ERROR_END |-> 0 - 1]

ERROR_CODE(f) == IF f = "eaf" THEN EAF_ERROR_CODE ELSE EFW_ERROR_CODE

ErrorClass(f) == IF f = "eaf" THEN "ZwoFocuserError" ELSE "ZwoFilterWheelError"

EnumName(f) == IF f = "eaf" THEN "EAF_ERROR_CODE" ELSE "EFW_ERROR_CODE"

\* _functions_: CFUNCTYPE(restype, argtypes...) per native entry point
eaf_functions ==
    [EAFGetNum |-> <<"c_int">>,
     EAFGetProductIDs |-> <<"c_int", "POINTER(c_int*128)">>,
     EAFCheck |-> <<"c_int", "c_int", "c_int">>,
     EAFGetID |-> <<"c_int", "c_int", "POINTER(c_int)">>,
     EAFOpen |-> <<"c_int", "c_int">>,
     EAFGetProperty |-> <<"c_int", "c_int", "POINTER(EAF_INFO)">>,
     EAFMove |-> <<"c_int", "c_int", "c_int">>,
     EAFStop |-> <<"c_int", "c_int">>,
     EAFIsMoving |-> <<"c_int", "c_int", "POINTER(c_bool)", "POINTER(c_bool)">>,
     EAFGetPosition |-> <<"c_int", "c_int", "POINTER(c_int)">>,
     EAFResetPostion |-> <<"c_int", "c_int", "c_int">>,
     EAFGetTemp |-> <<"c_int", "c_int", "POINTER(c_float)">>,
     EAFSetBeep |-> <<"c_int", "c_int", "c_bool">>,
     EAFGetBeep |-> <<"c_int", "c_int", "POINTER(c_bool)">>,
     EAFSetMaxStep |-> <<"c_int", "c_int", "c_int">>,
     EAFGetMaxStep |-> <<"c_int", "c_int", "POINTER(c_int)">>,
     EAFStepRange |-> <<"c_int", "c_int", "POINTER(c_int)">>,
     EAFSetReverse |-> <<"c_int", "c_int", "c_bool">>,
     EAFGetReverse |-> <<"c_int", "c_int", "POINTER(c_bool)">>,
     EAFSetBacklash |-> <<"c_int", "c_int", "c_int">>,
     EAFGetBacklash |-> <<"c_int", "c_int", "POINTER(c_int)">>,
     EAFClose |-> <<"c_int", "c_int">>,
     EAFGetSDKVersion |-> <<"c_char_p">>,
     EAFGetFirmwareVersion |-> <<"c_int", "c_int", "POINTER(c_ubyte)", "POINTER(c_ubyte)", "POINTER(c_ubyte)">>,
     EAFGetSerialNumber |-> <<"c_int", "c_int", "POINTER(EAF_ID)">>,
     EAFSetID |-> <<"c_int", "c_int", "EAF_ID">>]

efw_functions ==
    [EFWGetNum |-> <<"c_int">>,
     EFWGetProductIDs |-> <<"c_int", "POINTER(c_int*128)">>,
     EFWGetID |-> <<"c_int", "c_int", "POINTER(c_int)">>,
     EFWOpen |-> <<"c_int", "c_int">>,
     EFWClose |-> <<"c_int", "c_int">>,
     EFWGetProperty |-> <<"c_int", "c_int", "POINTER(EFW_INFO)">>,
     EFWGetPosition |-> <<"c_int", "c_int", "POINTER(c_int)">>,
     EFWSetPosition |-> <<"c_int", "c_int", "c_int">>,
     EFWSetDirection |-> <<"c_int", "c_int", "c_bool">>,
     EFWGetDirection |-> <<"c_int", "c_int", "POINTER(c_bool)">>,
     EFWCalibrate |-> <<"c_int", "c_int">>,
     EFWGetSDKVersion |-> <<"c_char_p">>,
     EFWGetHWErrorCode |-> <<"c_int", "c_int", "POINTER(c_int)">>,
     EFWGetFirmwareVersion |-> <<"c_int", "c_int", "POINTER(c_ubyte)", "POINTER(c_ubyte)", "POINTER(c_ubyte)">>,
     EFWGetSerialNumber |-> <<"c_int", "c_int", "POINTER(EFW_ID)">>,
     EFWSetID |-> <<"c_int", "c_int", "EFW_ID">>]

functions(f) == IF f = "eaf" THEN eaf_functions ELSE efw_functions

Names(f) == DOMAIN functions(f)

\* the focuser's allow-list without EAFCheck
eaf_special_names_short == {"EAFGetNum", "EAFGetProductIDs", "EAFGetSDKVersion"}

eaf_special_names == {"EAFGetNum", "EAFGetProductIDs", "EAFGetSDKVersion", "EAFCheck"}

efw_special_names == {"EFWGetNum", "EFWGetProductIDs", "EFWGetSDKVersion"}

special_names(f) == IF f = "eaf" THEN eaf_special_names ELSE efw_special_names


(* ------------------------------------------------------------------ *)
(* State                                                               *)
(* ------------------------------------------------------------------ *)
VARIABLES
    os_name,        \* os.name of the running interpreter
    width,          \* platform.architecture()[0]
    present,        \* which shared objects the loader can open
    imported,       \* per module: "no", "ok" (in sys.modules), "failed"
    loads,          \* per module: the CDLL calls its imports made, in order
    lib,            \* per module: the module global _lib (0: unbound)
    attempts,       \* per module: how many times its import was run
    clients,        \* per family: number of Focuser / FilterWheel instances
    name,           \* per device object: the attribute self.name
    thr,            \* per thread: the client operation it runs, and how far
    store,          \* the native double's 8-byte id record per device
    opened          \* the native double's view of each device: never
                    \* opened, open, or closed again

vars == <<os_name, width, present, imported, loads, lib, attempts, clients,
          name, thr, store, opened>>

envVars == <<os_name, width, present>>

loadVars == <<imported, loads, lib, attempts>>

NoName == "<unset>"
Idle == [pc |-> "idle"]
ZeroRecord == [i \in 1..ID_LEN |-> 0]

(* ------------------------------------------------------------------ *)
(* Error mapper: ZwoEafDevice.__call__ / ZwoEfwDevice.__call__         *)
(* ------------------------------------------------------------------ *)
\* a test `result > 0` in place of the truthiness test
TruthyPositive(proto, result) ==
    IF proto[1] = "c_char_p" THEN result \notin {"", "NULL"} ELSE result > 0

\* truthiness of the converted native result: a c_char_p result is bytes
Truthy(proto, result) ==
    IF proto[1] = "c_char_p" THEN result \notin {"", "NULL"} ELSE result # 0

HasMember(f, result) ==
    \E m \in DOMAIN ERROR_CODE(f) : ERROR_CODE(f)[m] = result

\* a lookup that falls back to the general error for a value it does not know
EnumLookupDefault(f, result) ==
    IF HasMember(f, result)
    THEN [ok |-> TRUE,
          member |-> CHOOSE m \in DOMAIN ERROR_CODE(f) : ERROR_CODE(f)[m] = result]
    ELSE [ok |-> TRUE,
          member |-> IF f = "eaf" THEN "EAF_ERROR_GENERAL_ERROR"
                     ELSE "EFW_ERROR_GENERAL_ERROR"]

\* EAF_ERROR_CODE(result) / EFW_ERROR_CODE(result): the member with that value,
\* a ValueError when there is none
EnumLookup(f, result) ==
    IF HasMember(f, result)
    THEN [ok |-> TRUE,
          member |-> CHOOSE m \in DOMAIN ERROR_CODE(f) : ERROR_CODE(f)[m] = result]
    ELSE [ok |-> FALSE, member |-> "ValueError"]

Raise(exc, msg) == [kind |-> "raise", exc |-> exc, msg |-> msg]

Return(v) == [kind |-> "return", value |-> v]

ValueErrorOf(f, result) ==
    Raise("ValueError", <<ToString(result), "is not a valid", EnumName(f)>>)

\* msg = EAF_ERROR_CODE(result).name
eaf_msg(nm, result) ==
    LET e == EnumLookup("eaf", result) IN
    IF e.ok THEN Raise("ZwoFocuserError", <<e.member>>)
    ELSE ValueErrorOf("eaf", result)

\* msg = f"{self.name} error {result} ({EFW_ERROR_CODE(result).name})"
efw_msg(nm, result) ==
    LET e == EnumLookup("efw", result) IN
    IF e.ok THEN Raise("ZwoFilterWheelError", <<nm, "error", ToString(result), e.member>>)
    ELSE ValueErrorOf("efw", result)

\* the test made in the focuser family only
MustRaiseFocuserOnly(f, nm, proto, result) ==
    f = "eaf" /\ Truthy(proto, result) /\ nm \notin special_names(f)

\* the test of line 110 / 100, on the value self.name has when it is read
MustRaise(f, nm, proto, result) ==
    Truthy(proto, result) /\ nm \notin special_names(f)

\* __call__ after the native call returned `result`
call(f, nm, proto, result) ==
    IF MustRaise(f, nm, proto, result)
    THEN IF f = "eaf" THEN eaf_msg(nm, result) ELSE efw_msg(nm, result)
    ELSE Return(result)


(* ------------------------------------------------------------------ *)
(* Marshalling helpers                                                 *)
(* ------------------------------------------------------------------ *)
c_int(x) == [ctype |-> "c_int", value |-> x]

c_bool(x) == [ctype |-> "c_bool", value |-> x]

\* pid_array = (c_int * ID_MAX)(0)
pid_array(f) == [i \in 1..ID_MAX(f) |-> 0]

\* the stop index of the slice a[:n] of a sequence of length len
SliceStop(n, len) ==
    IF n < 0 THEN (IF n + len < 0 THEN 0 ELSE n + len)
    ELSE IF n > len THEN len ELSE n

\* the whole buffer, whatever length was reported
pid_slice_all(buf, n) == buf

\* int.from_bytes(serial.id, "little")
int_from_bytes_little(b) ==
    [j \in 1..(Len(b) \div 2) |->
        b[Len(b) + 2 - 2 * j] * 256 + b[Len(b) + 1 - 2 * j]]

\* tuple(pid_array[:pid_array_len])
pid_slice(buf, n) == SubSeq(buf, 1, SliceStop(n, Len(buf)))

\* int.from_bytes(serial.id, "big"), as base-65536 digits, most significant
\* first (the value of eight bytes does not fit a machine integer)
int_from_bytes_big(b) ==
    [j \in 1..(Len(b) \div 2) |-> b[2 * j - 1] * 256 + b[2 * j]]

\* f"{major.value}.{minor.value}.{build.value}"
eaf_version_string(v) ==
    ToString(v[1]) \o "." \o ToString(v[2]) \o "." \o ToString(v[3])

(* ------------------------------------------------------------------ *)
(* Device client wrappers: what each method does with the dispatcher's *)
(* result and with the by-reference outputs                            *)
(* ------------------------------------------------------------------ *)
RawOps(f) ==
    IF f = "eaf" THEN {"EAFGetNum", "EAFCheck"} ELSE {"EFWGetNum"}

PidOps(f) == IF f = "eaf" THEN {"EAFGetProductIDs"} ELSE {"EFWGetProductIDs"}

IntOutOps(f) ==
    IF f = "eaf"
    THEN {"EAFGetID", "EAFGetPosition", "EAFGetMaxStep", "EAFStepRange",
          "EAFGetBacklash"}
    ELSE {"EFWGetID", "EFWGetPosition", "EFWGetHWErrorCode"}

BoolOutOps(f) ==
    IF f = "eaf" THEN {"EAFGetBeep", "EAFGetReverse"} ELSE {"EFWGetDirection"}

FloatOutOps(f) == IF f = "eaf" THEN {"EAFGetTemp"} ELSE {}

\* `return not self._eaf.X(...)` in eaf.py, `self._efw.X(...); return True`
\* in efw.py
CommandOps(f) ==
    IF f = "eaf"
    THEN {"EAFOpen", "EAFMove", "EAFStop", "EAFResetPostion", "EAFSetBeep",
          "EAFSetMaxStep", "EAFSetReverse", "EAFSetBacklash", "EAFClose"}
    ELSE {"EFWOpen", "EFWClose", "EFWSetPosition", "EFWSetDirection",
          "EFWCalibrate"}

SetIdOps(f) == IF f = "eaf" THEN {"EAFSetID"} ELSE {"EFWSetID"}

SerialOps(f) == IF f = "eaf" THEN {"EAFGetSerialNumber"} ELSE {"EFWGetSerialNumber"}

MovingOps(f) == IF f = "eaf" THEN {"EAFIsMoving"} ELSE {}

PropertyOps(f) == IF f = "eaf" THEN {"EAFGetProperty"} ELSE {"EFWGetProperty"}

VersionOps(f) == IF f = "eaf" THEN {"EAFGetSDKVersion"} ELSE {"EFWGetSDKVersion"}

FirmwareOps(f) ==
    IF f = "eaf" THEN {"EAFGetFirmwareVersion"} ELSE {"EFWGetFirmwareVersion"}

\* the value a Focuser method returns once the dispatcher returned `result`
eaf_wrapper(op, result, out) ==
    CASE op \in RawOps("eaf") -> Return(result)
      [] op \in PidOps("eaf") -> Return(pid_slice(out, result))
      [] op \in CommandOps("eaf") \cup SetIdOps("eaf") -> Return(result = 0)
      [] op \in MovingOps("eaf") ->
            Return([moving |-> out[1], hand_control |-> out[2]])
      [] op \in VersionOps("eaf") ->
            IF result = "NULL" THEN Raise("TypeError", <<"bytes">>)
            ELSE Return([str |-> result])
      [] op \in FirmwareOps("eaf") -> Return(eaf_version_string(out))
      [] op \in SerialOps("eaf") -> Return(int_from_bytes_big(out))
      [] OTHER -> Return(out)

\* the value a FilterWheel method returns once the dispatcher returned `result`
efw_wrapper(op, result, out) ==
    CASE op \in RawOps("efw") -> Return(result)
      [] op \in PidOps("efw") -> Return(pid_slice(out, result))
      [] op \in CommandOps("efw") \cup SetIdOps("efw") -> Return(TRUE)
      [] op \in VersionOps("efw") ->
            IF result = "NULL" THEN Raise("TypeError", <<"bytes">>)
            ELSE Return([bytes |-> result])
      [] OTHER -> Return(out)

wrapper(f, op, result, out) ==
    IF f = "eaf" THEN eaf_wrapper(op, result, out) ELSE efw_wrapper(op, result, out)


(* ------------------------------------------------------------------ *)
(* Initial state: a fresh interpreter, nothing imported                *)
(* ------------------------------------------------------------------ *)
Files == {"libudev.so", "eaf", "efw"}

Fresh ==
    /\ imported = [f \in Families |-> "no"]
    /\ loads = [f \in Families |-> <<>>]
    /\ lib = [f \in Families |-> 0]
    /\ attempts = [f \in Families |-> 0]
    /\ clients = [f \in Families |-> 0]
    /\ name = [f \in Families |-> [c \in 1..MaxClients |-> NoName]]
    /\ thr = [t \in Threads |-> Idle]
    /\ store = [f \in Families |-> [d \in DevIds |-> ZeroRecord]]
    /\ opened = [f \in Families |-> [d \in DevIds |-> "never"]]

\* any platform, any set of installed shared objects
InitAny ==
    /\ os_name \in OsNames
    /\ width \in Widths
    /\ present \in SUBSET Files
    /\ Fresh

\* a 64-bit Linux host with every shared object installed
Init ==
    /\ os_name = "posix"
    /\ width = "64bit"
    /\ present = Files
    /\ Fresh

(* ------------------------------------------------------------------ *)
(* Import of zwo.eaf / zwo.efw: lines 19-30                            *)
(* ------------------------------------------------------------------ *)
Opens(f, ld) ==
    IF ld.path = <<"libudev.so">> THEN "libudev.so" \in present ELSE f \in present

\* the CDLL calls an import gets to make: all of them, or up to the first
\* one that raises OSError
CallsMade(f, calls) ==
    LET bad == {i \in 1..Len(calls) : ~Opens(f, calls[i])}
        last == IF bad = {} THEN Len(calls)
                ELSE CHOOSE i \in bad : \A j \in bad : i <= j
    IN [i \in 1..last |-> [path |-> calls[i].path, mode |-> calls[i].mode,
                           ok |-> Opens(f, calls[i])]]

DeviceLoads(f, ls) ==
    {i \in 1..Len(ls) : ls[i].ok /\ ls[i].path # <<"libudev.so">>}

LoadCount(f) == Cardinality(DeviceLoads(f, loads[f]))

Import(f) ==
    /\ imported[f] # "ok"
    /\ attempts[f] < MaxImports
    /\ attempts' = [attempts EXCEPT ![f] = @ + 1]
    /\ IF ~arch_found(f, os_name, width)
       THEN /\ imported' = [imported EXCEPT ![f] = "failed"]
            /\ UNCHANGED <<loads, lib>>
       ELSE LET a == arch(f, os_name, width)
                made == CallsMade(f, load_lib_calls(f, os_name, a[1], a[2]))
                ls == loads[f] \o made
            IN /\ loads' = [loads EXCEPT ![f] = ls]
               /\ IF made[Len(made)].ok
                  THEN /\ lib' = [lib EXCEPT ![f] = Cardinality(DeviceLoads(f, ls))]
                       /\ imported' = [imported EXCEPT ![f] = "ok"]
                  ELSE /\ lib' = lib
                       /\ imported' = [imported EXCEPT ![f] = "failed"]
    /\ UNCHANGED <<envVars, clients, name, thr, store, opened>>

\* a constructor that loads the library again for each instance
ConstructReloading(f, limit) ==
    /\ imported[f] = "ok"
    /\ clients[f] < limit
    /\ clients' = [clients EXCEPT ![f] = @ + 1]
    /\ LET a == arch(f, os_name, width)
           ls == loads[f] \o CallsMade(f, load_lib_calls(f, os_name, a[1], a[2]))
       IN /\ loads' = [loads EXCEPT ![f] = ls]
          /\ lib' = [lib EXCEPT ![f] = Cardinality(DeviceLoads(f, ls))]
    /\ UNCHANGED <<envVars, imported, attempts, name, thr, store, opened>>

(* ------------------------------------------------------------------ *)
(* Focuser.__init__ / FilterWheel.__init__                             *)
(* ------------------------------------------------------------------ *)
Construct(f, limit) ==
    /\ imported[f] = "ok"
    /\ clients[f] < limit
    /\ clients' = [clients EXCEPT ![f] = @ + 1]
    /\ UNCHANGED <<envVars, loadVars, name, thr, store, opened>>


(* ------------------------------------------------------------------ *)
(* A client operation, in the three steps another thread can come      *)
(* between: the attribute lookup (__getattr__), the native call        *)
(* (ctypes releases the GIL around it), and the rest of __call__ with  *)
(* the method's unmarshalling                                          *)
(* ------------------------------------------------------------------ *)
UsesIds(f, op) == Len(functions(f)[op]) >= 2 /\ op \notin PidOps(f)

UsesArg(f, op) ==
    Len(functions(f)[op]) = 3 /\ op \in CommandOps(f) \cup {"EAFCheck"}

\* the arguments a method passes, marshalled as the method does
marshal(f, op, ids, a, rec) ==
    CASE op \in PidOps(f) -> <<"byref">>
      [] op \in SetIdOps(f) -> <<c_int(ids), rec>>
      [] op \in CommandOps(f) /\ Len(functions(f)[op]) = 2 -> <<c_int(ids)>>
      [] op \in CommandOps(f) /\ functions(f)[op][3] = "c_bool" ->
            <<c_int(ids), c_bool(a = 1)>>
      [] op \in CommandOps(f) -> <<c_int(ids), c_int(a)>>
      [] op = "EAFCheck" -> <<c_int(ids), c_int(a)>>
      [] op \in MovingOps(f) -> <<c_int(ids), "byref", "byref">>
      [] op \in FirmwareOps(f) -> <<c_int(ids), "byref", "byref", "byref">>
      [] Len(functions(f)[op]) = 1 -> <<>>
      [] OTHER -> <<c_int(ids), "byref">>

\* self._eaf.X / self._efw.X: __getattr__ stores the name in the device
\* object and binds the prototype of X into the partial it returns
getattr(f, c, nm) == [name EXCEPT ![f][c] = nm]

Begin(t, f, cs, ops, recs) ==
    /\ thr[t].pc \in {"idle", "done"}
    /\ imported[f] = "ok"
    /\ \E c \in cs \cap 1..clients[f], op \in ops \cap Names(f), ids \in DevIds,
          a \in OutVals, rec \in recs :
         /\ UsesIds(f, op) \/ ids = 0
         /\ UsesArg(f, op) \/ a = 0
         /\ op \in SetIdOps(f) \/ rec = ZeroRecord
         /\ name' = getattr(f, c, op)
         /\ thr' = [thr EXCEPT ![t] =
                [pc |-> "bound", f |-> f, c |-> c, op |-> op, ids |-> ids,
                 proto |-> functions(f)[op], args |-> marshal(f, op, ids, a, rec),
                 calls |-> 0]]
    /\ UNCHANGED <<envVars, loadVars, clients, store, opened>>

TempVals == {0 - 273, 25}
FirmwareVals == {<<1, 2, 15>>, <<0, 0, 0>>}
VersionVals == {"1, 6, 5", "", "NULL"}
MovingVals == {<<TRUE, FALSE>>, <<FALSE, TRUE>>}
FillCounts(f) == {0, MaxFill, ID_MAX(f)}
LengthVals(f) == (0 - (ID_MAX(f) + LenSlack))..(ID_MAX(f) + LenSlack)

\* what the native library left in the product-id buffer: k ids, then zeros
FilledBuffer(f, k) == [i \in 1..ID_MAX(f) |-> IF i <= k THEN i ELSE 0]

\* the values a native call can return through a prototype's restype
RetDomain(f, op, proto, rets, lens) ==
    IF proto[1] = "c_char_p" THEN VersionVals
    ELSE IF op \in PidOps(f) THEN lens
    ELSE rets

\* what the native library can leave in the by-reference arguments
OutDomain(f, op, ids, ret) ==
    CASE op \in PidOps(f) -> {FilledBuffer(f, k) : k \in FillCounts(f)}
      [] op \in IntOutOps(f) -> OutVals
      [] op \in BoolOutOps(f) -> BOOLEAN
      [] op \in FloatOutOps(f) -> TempVals
      [] op \in MovingOps(f) -> MovingVals
      [] op \in PropertyOps(f) ->
            {[ID |-> ids, Name |-> f, Capability |-> v] : v \in OutVals}
      [] op \in FirmwareOps(f) -> FirmwareVals
      [] op \in SerialOps(f) -> {IF ret = 0 THEN store[f][ids] ELSE ZeroRecord}
      [] OTHER -> {<<>>}

\* the native double honours a set: it keeps the record it was given
Honoured(r, entry, ret) ==
    r.op \in SetIdOps(r.f) /\ entry = r.op /\ ret = 0

\* the entry points that open and close a device in the native library
OpenOps(f) == IF f = "eaf" THEN {"EAFOpen"} ELSE {"EFWOpen"}

CloseOps(f) == IF f = "eaf" THEN {"EAFClose"} ELSE {"EFWClose"}

\* the native double's view of a device after the entry point returned ret:
\* only the library keeps this, the binding has no such field
after_native(cur, f, entry, ret) ==
    IF ret # 0 THEN cur
    ELSE IF entry \in OpenOps(f) THEN "open"
    ELSE IF entry \in CloseOps(f) THEN "closed"
    ELSE cur

\* line 107 / 97: prototype((self.name, _lib))(*arguments), one native call;
\* the double records the open/close history of the devices in `track`
Invoke(t, rets, lens, track) ==
    /\ thr[t].pc = "bound"
    /\ LET r == thr[t]
           entry == name[r.f][r.c]
       IN \E ret \in RetDomain(r.f, r.op, r.proto, rets, lens[r.f]) :
            \E out \in OutDomain(r.f, r.op, r.ids, ret) :
              /\ thr' = [thr EXCEPT ![t] =
                     [pc |-> "called", entry |-> entry, handle |-> lib[r.f],
                      ret |-> ret, out |-> out, calls |-> r.calls + 1] @@ r]
              /\ IF Honoured(r, entry, ret)
                 THEN store' = [store EXCEPT ![r.f][r.ids] = r.args[2]]
                 ELSE store' = store
              /\ IF r.ids \in track /\ entry \in OpenOps(r.f) \cup CloseOps(r.f)
                 THEN opened' = [opened EXCEPT ![r.f][r.ids] =
                                    after_native(@, r.f, entry, ret)]
                 ELSE opened' = opened
    /\ UNCHANGED <<envVars, loadVars, clients, name>>

\* how the method `op` ends once the dispatcher ended with r: an exception
\* passes through the method, a result is unmarshalled
Finish(f, op, r, out) ==
    IF r.kind = "raise" THEN r ELSE wrapper(f, op, r.value, out)

\* a dispatcher that calls the native library once more after a failure
CompleteRetrying(t) ==
    /\ thr[t].pc = "called"
    /\ LET r == thr[t]
           nm == name[r.f][r.c]
           mapped == call(r.f, nm, r.proto, r.ret)
       IN IF mapped.kind = "raise" /\ r.calls < 2
          THEN thr' = [thr EXCEPT ![t] = [pc |-> "bound"] @@ r]
          ELSE thr' = [thr EXCEPT ![t] =
                   [pc |-> "done", checked |-> nm, mapped |-> mapped,
                    res |-> Finish(r.f, r.op, mapped, r.out)] @@ r]
    /\ UNCHANGED <<envVars, loadVars, clients, name, store, opened>>

\* lines 109-114 / 99-104, then the method's own return statement
Complete(t) ==
    /\ thr[t].pc = "called"
    /\ LET r == thr[t]
           nm == name[r.f][r.c]
           mapped == call(r.f, nm, r.proto, r.ret)
       IN thr' = [thr EXCEPT ![t] =
              [pc |-> "done", checked |-> nm, mapped |-> mapped,
               res |-> Finish(r.f, r.op, mapped, r.out)] @@ r]
    /\ UNCHANGED <<envVars, loadVars, clients, name, store, opened>>

(* ------------------------------------------------------------------ *)
(* Specifications                                                      *)
(* ------------------------------------------------------------------ *)
AllRets == [f \in Families |-> NativeRets]
AllLengths == [f \in Families |-> LengthVals(f)]
FewRets == {0, 2}
AnyClient == 1..MaxClients

Solo == {1}

\* the interpreter imports the modules and the caller makes its clients
Lifecycle(cs) ==
    \/ \E f \in Families : Import(f)
    \/ \E f \in Families : Construct(f, Cardinality(cs))

\* one thread working on the first client of each family: every entry point,
\* every return code
Next ==
    \/ Lifecycle(Solo)
    \/ \E f \in Families : Begin(1, f, Solo, Names(f), {ZeroRecord})
    \/ Invoke(1, NativeRets, AllRets, {})
    \/ Complete(1)

Spec == Init /\ [][Next]_vars

\* any platform, any client of either family, a few entry points
LoadOps(f) == IF f = "eaf" THEN {"EAFGetNum", "EAFOpen"} ELSE {"EFWGetNum", "EFWOpen"}

NextLoad ==
    \/ Lifecycle(AnyClient)
    \/ \E f \in Families : Begin(1, f, AnyClient, LoadOps(f), {ZeroRecord})
    \/ Invoke(1, FewRets, AllRets, {})
    \/ Complete(1)

SpecLoad == InitAny /\ [][NextLoad]_vars

\* the product-id listing, for every length the native call can report
NextIds ==
    \/ Lifecycle(Solo)
    \/ \E f \in Families : Begin(1, f, Solo, PidOps(f), {ZeroRecord})
    \/ Invoke(1, NativeRets, AllLengths, {})
    \/ Complete(1)

SpecIds == Init /\ [][NextIds]_vars

\* the id record written and read back
FiveRecord == [i \in 1..ID_LEN |-> IF i = ID_LEN THEN 5 ELSE 0]
CountRecord == [i \in 1..ID_LEN |-> i]
HighRecord == [i \in 1..ID_LEN |-> IF i = 1 THEN 255 ELSE IF i = ID_LEN THEN 128 ELSE 0]
IdRecords == {FiveRecord, CountRecord, HighRecord}

NextSerial ==
    \/ Lifecycle(Solo)
    \/ \E f \in Families :
         Begin(1, f, Solo, SetIdOps(f) \cup SerialOps(f), IdRecords \cup {ZeroRecord})
    \/ Invoke(1, FewRets, AllRets, {})
    \/ Complete(1)

SpecSerial == Init /\ [][NextSerial]_vars

\* several threads working on the same client
ConcOps(f) ==
    IF f = "eaf" THEN {"EAFGetNum", "EAFMove"} ELSE {"EFWGetNum", "EFWSetPosition"}

NextConc ==
    \/ Lifecycle(Solo)
    \/ \E t \in Threads, f \in Families : Begin(t, f, Solo, ConcOps(f), {ZeroRecord})
    \/ \E t \in Threads : Invoke(t, FewRets, AllRets, {})
    \/ \E t \in Threads : Complete(t)

SpecConc == Init /\ [][NextConc]_vars

\* open, close and use in any order, on any device id; the native library
\* answers success or EAF_ERROR_CLOSED / EFW_ERROR_CLOSED as it likes
OrderOps(f) ==
    IF f = "eaf" THEN {"EAFOpen", "EAFClose", "EAFMove", "EAFGetPosition"}
    ELSE {"EFWOpen", "EFWClose", "EFWSetPosition", "EFWGetPosition"}

OrderRets == {0, EAF_ERROR_CODE["EAF_ERROR_CLOSED"]}

NextOrder ==
    \/ Lifecycle(Solo)
    \/ \E f \in Families : Begin(1, f, Solo, OrderOps(f), {ZeroRecord})
    \/ Invoke(1, OrderRets, AllRets, DevIds)
    \/ Complete(1)

SpecOrder == Init /\ [][NextOrder]_vars


(* ------------------------------------------------------------------ *)
(* Properties                                                          *)
(* ------------------------------------------------------------------ *)
Done(t) == thr[t].pc = "done"

\* the error codes the SDK documents: 1..9 and the END member
DocumentedCodes == (1..9) \cup {0 - 1}

\* the functions both families exempt from error mapping
AllowList ==
    {"EAFGetNum", "EAFGetProductIDs", "EAFGetSDKVersion", "EAFCheck",
     "EFWGetNum", "EFWGetProductIDs", "EFWGetSDKVersion"}

FamilyError(f) ==
    IF f = "eaf" THEN "ZwoFocuserError" ELSE "ZwoFilterWheelError"

\* eight bytes, most significant first, of a number given as four base-65536
\* digits
BytesOfDigits(d) ==
    [i \in 1..(2 * Len(d)) |->
        IF i % 2 = 1 THEN d[(i + 1) \div 2] \div 256 ELSE d[i \div 2] % 256]

PointerTypes ==
    {"POINTER(c_int)", "POINTER(c_bool)", "POINTER(c_float)", "POINTER(c_ubyte)",
     "POINTER(EAF_INFO)", "POINTER(EFW_INFO)", "POINTER(EAF_ID)", "POINTER(EFW_ID)",
     "POINTER(c_int*128)"}

\* what a method is to return on success, from what the native call left in
\* its by-reference arguments
Unmarshalled(r) ==
    CASE r.op \in {"EAFIsMoving"} ->
            r.res.value.moving = r.out[1] /\ r.res.value.hand_control = r.out[2]
      [] r.op = "EAFGetFirmwareVersion" ->
            (r.out = <<1, 2, 15>> => r.res.value = "1.2.15")
              /\ (r.out = <<0, 0, 0>> => r.res.value = "0.0.0")
      [] r.op = "EAFGetSerialNumber" -> BytesOfDigits(r.res.value) = r.out
      [] \A i \in 1..Len(r.proto) : r.proto[i] \notin PointerTypes ->
            r.res.value = TRUE
      [] OTHER -> r.res.value = r.out

\* C1: for every entry point outside the allow-list, a native 0 makes the
\* method return the unmarshalled outputs without raising, and a native
\* code among 1..9 and -1 makes it raise the family's error naming the
\* enumeration member that has exactly that value.
C1_ZeroReturnsKnownCodeRaises ==
    \A t \in Threads :
      (Done(t) /\ thr[t].op \notin AllowList) =>
        LET r == thr[t] IN
        /\ r.ret = 0 => (r.res.kind = "return" /\ Unmarshalled(r))
        /\ r.ret \in DocumentedCodes =>
             /\ r.res.kind = "raise"
             /\ r.res.exc = FamilyError(r.f)
             /\ r.res.msg[Len(r.res.msg)] \in DOMAIN ERROR_CODE(r.f)
             /\ ERROR_CODE(r.f)[r.res.msg[Len(r.res.msg)]] = r.ret

C1_Witness ==
    /\ Done(1)
    /\ thr[1].op = "EAFGetPosition"
    /\ thr[1].ret = 0 - 1
    /\ thr[1].res.kind = "raise"
    /\ thr[1].res.msg = <<"EAF_ERROR_END">>

\* C2 as stated: the filter wheel's mutating calls return True whatever the
\* native call returns, while EAFMove raises on a nonzero return.
C2_FilterWheelAlwaysSucceeds ==
    \A t \in Threads :
      Done(t) =>
        LET r == thr[t] IN
        /\ r.op \in {"EFWOpen", "EFWClose", "EFWSetPosition", "EFWSetDirection",
                     "EFWCalibrate", "EFWSetID"} =>
             (r.res.kind = "return" /\ r.res.value = TRUE)
        /\ (r.op = "EAFMove" /\ r.ret # 0) => r.res.kind = "raise"

\* C2 amended: the filter wheel's mutating calls return True when the native
\* call returns 0 and raise when it returns nonzero, as EAFMove does.
C2_FilterWheelRaisesOnNonzero ==
    \A t \in Threads :
      Done(t) =>
        LET r == thr[t] IN
        (r.op \in {"EFWOpen", "EFWClose", "EFWSetPosition", "EFWSetDirection",
                   "EFWCalibrate", "EFWSetID", "EAFMove"}) =>
             /\ r.ret = 0 => (r.res.kind = "return" /\ r.res.value = TRUE)
             /\ r.ret # 0 => r.res.kind = "raise"
             /\ r.ret \in DocumentedCodes => r.res.exc = FamilyError(r.f)

C2_Witness ==
    /\ Done(1)
    /\ thr[1].op = "EFWSetPosition"
    /\ thr[1].ret = 3
    /\ thr[1].res.kind = "raise"
    /\ thr[1].res.exc = "ZwoFilterWheelError"

\* C3: for every entry point outside the allow-list, a nonzero native
\* return that is no member of the enumeration never returns normally and
\* is never reported as a named kind: it surfaces as the distinct unknown-code
\* failure (the ValueError of the enumeration lookup).
C3_UnknownCodeIsDistinct ==
    \A t \in Threads :
      (Done(t) /\ thr[t].op \notin AllowList
         /\ thr[t].ret # 0 /\ thr[t].ret \notin DocumentedCodes) =>
        /\ thr[t].res.kind = "raise"
        /\ thr[t].res.exc = "ValueError"
        /\ \A i \in 1..Len(thr[t].res.msg) :
             thr[t].res.msg[i] \notin DOMAIN ERROR_CODE(thr[t].f)

C3_Witness ==
    /\ Done(1)
    /\ thr[1].op = "EFWGetPosition"
    /\ thr[1].ret = 10
    /\ thr[1].res.exc = "ValueError"

\* C4: for the allow-list functions the error mapper returns the native
\* value unchanged, whatever it is, and never raises; every other function
\* is error-mapped (a nonzero return raises).
C4_AllowListPassesThrough ==
    \A t \in Threads :
      Done(t) =>
        LET r == thr[t] IN
        /\ r.op \in AllowList => r.mapped = [kind |-> "return", value |-> r.ret]
        /\ (r.op \notin AllowList /\ r.ret # 0) => r.mapped.kind = "raise"

C4_Witness ==
    /\ Done(1)
    /\ thr[1].op = "EAFCheck"
    /\ thr[1].ret = 0 - 2
    /\ thr[1].res = [kind |-> "return", value |-> 0 - 2]

\* C5 as stated: every failure raised for a nonzero native return carries
\* the name of the operation that failed and the matched error kind.
C5_FailureCarriesNameAndKind ==
    \A t \in Threads :
      (Done(t) /\ thr[t].mapped.kind = "raise") =>
        /\ \E i \in 1..Len(thr[t].res.msg) : thr[t].res.msg[i] = thr[t].op
        /\ \E i \in 1..Len(thr[t].res.msg) :
             thr[t].res.msg[i] \in DOMAIN ERROR_CODE(thr[t].f)


\* C6: the native library of a family is loaded exactly once per process:
\* whenever a client of the family exists or one of its operations runs, the
\* family's load count is 1 (so the load came first), and every native call
\* of the family goes through that one handle.
C6_LoadedExactlyOnce ==
    \A f \in Families :
      /\ LoadCount(f) <= 1
      /\ clients[f] > 0 => (LoadCount(f) = 1 /\ lib[f] = 1)
      /\ \A t \in Threads :
           (thr[t].pc # "idle" /\ thr[t].f = f) =>
             /\ LoadCount(f) = 1
             /\ thr[t].pc \in {"called", "done"} =>
                  (thr[t].handle = 1 /\ thr[t].handle = lib[f])

C6_Witness ==
    /\ clients["eaf"] = 2
    /\ clients["efw"] = 2
    /\ Done(1)
    /\ thr[1].c = 2
    /\ thr[1].f = "efw"
    /\ thr[1].handle = 1
    /\ name["efw"][1] # NoName
    /\ LoadCount("efw") = 1

\* the documented lookup table
Supported(os, w) == os \in {"posix", "nt"} /\ w \in {"32bit", "64bit"}

DocumentedDir(os, w) ==
    CASE os = "posix" /\ w = "32bit" -> "linux32"
      [] os = "posix" /\ w = "64bit" -> "linux64"
      [] os = "nt" /\ w = "32bit" -> "win32"
      [] os = "nt" /\ w = "64bit" -> "win64"

DocumentedFile(f, os) ==
    CASE f = "eaf" /\ os = "posix" -> "libEAFFocuser.so"
      [] f = "eaf" /\ os = "nt" -> "EAF_focuser.dll"
      [] f = "efw" /\ os = "posix" -> "libEFWFilter.so"
      [] f = "efw" /\ os = "nt" -> "EFW_filter.dll"

DocumentedPath(f, os, w) ==
    (IF f = "eaf" THEN <<"dirname", "libs">> ELSE <<"dirname", "libs", "efw">>)
        \o <<DocumentedDir(os, w), DocumentedFile(f, os)>>

IsUdev(ld) == ld.path = <<"libudev.so">>

\* C7: on each supported (OS family, word width) pair the resolver opens
\* exactly the documented path, on posix right after libudev loaded globally
\* and on nt without it; on any other pair nothing is loaded, the import
\* fails, no client exists and no native call is made.
C7_ResolverFollowsTable ==
    \A f \in Families :
      IF Supported(os_name, width)
      THEN /\ imported[f] # "no" => Len(loads[f]) >= 1
           /\ \A i \in 1..Len(loads[f]) :
                LET ld == loads[f][i] IN
                IF IsUdev(ld)
                THEN os_name = "posix" /\ ld.mode = "RTLD_GLOBAL"
                ELSE /\ ld.path = DocumentedPath(f, os_name, width)
                     /\ os_name = "posix" =>
                          (i > 1 /\ IsUdev(loads[f][i - 1]) /\ loads[f][i - 1].ok)
      ELSE /\ loads[f] = <<>>
           /\ lib[f] = 0
           /\ imported[f] \in {"no", "failed"}
           /\ clients[f] = 0
           /\ \A t \in Threads : thr[t].pc = "idle"

C7_Witness ==
    /\ os_name = "nt"
    /\ width = "32bit"
    /\ imported["efw"] = "ok"
    /\ loads["efw"] =
         <<[path |-> <<"dirname", "libs", "efw", "win32", "EFW_filter.dll">>,
            mode |-> "DEFAULT", ok |-> TRUE]>>
    /\ clients["efw"] = 1


IsPidOp(op) == op \in {"EAFGetProductIDs", "EFWGetProductIDs"}

\* the first k slots of the buffer, in order
LeadingSlots(v, buf, k) ==
    Len(v) = k /\ \A i \in 1..k : v[i] = buf[i]

\* C8 as stated: whatever length n the native call reports (0, 128, above
\* 128, negative), the product-id listing has exactly n elements, the first
\* n slots of the buffer.
C8_ListHasReportedLength ==
    \A t \in Threads :
      (Done(t) /\ IsPidOp(thr[t].op) /\ thr[t].res.kind = "return") =>
        LeadingSlots(thr[t].res.value, thr[t].out, thr[t].ret)

\* C8 amended: for a reported length n within 0..128 the listing is the first
\* n slots of the buffer; for n above 128 it is the whole 128-slot buffer;
\* for a negative n it is the first 128 + n slots (none when n <= -128).
C8_ListFollowsSliceRule ==
    \A t \in Threads :
      (Done(t) /\ IsPidOp(thr[t].op)) =>
        LET r == thr[t]
            n == r.ret
        IN /\ r.res.kind = "return"
           /\ Len(r.out) = 128
           /\ (0 <= n /\ n <= 128) => LeadingSlots(r.res.value, r.out, n)
           /\ n > 128 => LeadingSlots(r.res.value, r.out, 128)
           /\ (n < 0 /\ n > 0 - 128) => LeadingSlots(r.res.value, r.out, 128 + n)
           /\ n <= 0 - 128 => r.res.value = <<>>

C8_Witness ==
    /\ Done(1)
    /\ thr[1].op = "EFWGetProductIDs"
    /\ thr[1].ret = 3
    /\ thr[1].out[4] = 0
    /\ thr[1].res.value = <<1, 2, 3>>

IsSetId(op) == op \in {"EAFSetID", "EFWSetID"}

IsGetSerial(op) == op \in {"EAFGetSerialNumber", "EFWGetSerialNumber"}

\* C9: against a native double that keeps what is written, a successful set
\* leaves the device holding exactly the eight bytes given, and a get returns
\* them: in the focuser family as the big-endian integer of the record (seven
\* zero bytes then 5 is the integer 5), which encodes back to the same eight
\* bytes, in the filter-wheel family as the record itself.
C9_SerialRoundTrip ==
    \A t \in Threads :
      (Done(t) /\ thr[t].res.kind = "return") =>
        LET r == thr[t]
            b == store[r.f][r.ids]
        IN /\ IsSetId(r.op) => (b = r.args[2] /\ Len(b) = 8)
           /\ (IsGetSerial(r.op) /\ r.f = "eaf") =>
                /\ BytesOfDigits(r.res.value) = b
                /\ b = <<0, 0, 0, 0, 0, 0, 0, 5>> => r.res.value = <<0, 0, 0, 5>>
           /\ (IsGetSerial(r.op) /\ r.f = "efw") => r.res.value = b

C9_Witness ==
    /\ Done(1)
    /\ thr[1].op = "EAFGetSerialNumber"
    /\ thr[1].ids = 1
    /\ store["eaf"][1] = <<255, 0, 0, 0, 0, 0, 0, 128>>
    /\ thr[1].res.kind = "return"
    /\ thr[1].res.value = <<65280, 0, 0, 128>>

\* C10 as stated: under any interleaving of operations on one client, each
\* operation calls the native entry point of its own name, through its own
\* prototype, and its result is error-mapped under its own name.
C10_OperationUsesOwnName ==
    \A t \in Threads :
      /\ thr[t].pc \in {"called", "done"} =>
           /\ thr[t].entry = thr[t].op
           /\ thr[t].proto = functions(thr[t].f)[thr[t].op]
      /\ thr[t].pc = "done" => thr[t].checked = thr[t].op

\* the dispatcher's verdict as a function of the operation and of the value
\* its native call returned: a NULL version string cannot be decoded, any
\* other result of an allow-listed function passes, any other nonzero fails
FailsOn(r) ==
    IF r.proto[1] = "c_char_p" THEN r.ret = "NULL"
    ELSE r.op \notin AllowList /\ r.ret # 0

\* C11: every client operation, whatever was called before it and whether
\* the device was never opened, is open or was closed, makes exactly one
\* call to the native entry point of its own name in the loaded library;
\* it never ends without that call, never makes a second one after a
\* failure, and whether it raises or returns depends on nothing but the
\* value that one call returned (an exception of the dispatcher reaches the
\* caller unchanged).
C11_OneNativeCallDecides ==
    \A t \in Threads :
      LET r == thr[t] IN
      /\ r.pc = "bound" => r.calls = 0
      /\ r.pc \in {"called", "done"} =>
           /\ r.calls = 1
           /\ r.entry = r.op
           /\ r.handle = lib[r.f]
      /\ r.pc = "done" =>
           /\ r.res.kind = "raise" <=> FailsOn(r)
           /\ r.mapped.kind = "raise" => r.res = r.mapped
           /\ (r.res.kind = "return" /\ r.op \in CommandOps(r.f)) =>
                r.res.value = TRUE

\* a move on a device that was opened and closed again: the binding still
\* makes its one native call, and the library's refusal is what the caller
\* gets
C11_Witness ==
    /\ Done(1)
    /\ thr[1].op = "EAFMove"
    /\ thr[1].ids = 1
    /\ opened["eaf"][1] = "closed"
    /\ opened["efw"][0] = "open"
    /\ thr[1].calls = 1
    /\ thr[1].ret = 9
    /\ thr[1].res.kind = "raise"
    /\ thr[1].res.msg = <<"EAF_ERROR_CLOSED">>

====
